---- MODULE Spec2Model ----
(***************************************************************************)
(* A model of the piece-table text buffer of src/src/piece_table.rs.       *)
(*                                                                         *)
(* A Rust String is modelled as the sequence of its UTF-8 bytes.  A byte   *)
(* is written as a short string: "h", "i", "a" are one-byte (ASCII)        *)
(* characters, and the two-byte character U+00E9 is the byte pair          *)
(* <<"C3", "A9">>, of which "A9" is a continuation byte.  String::len is   *)
(* the number of bytes, chars().count() the number of characters, and      *)
(* str::get(a..b) is None unless a and b are character boundaries.         *)
(*                                                                         *)
(* Vec indices (piece ids) are 0-based as in the source; the piece with id *)
(* i is pieces[i + 1] in the model.                                        *)
(***************************************************************************)
EXTENDS Integers, Sequences, FiniteSets, TLC

VARIABLES
    original,           \* PieceTable.original
    addition,           \* PieceTable.addition
    pieces,             \* PieceTable.pieces
    current_piece_id,   \* PieceTable.current_piece_id
    debug_assertions,   \* cfg(debug_assertions) of the build
    text,               \* the text the table was constructed from
    call,               \* the last call made on the table, with its arguments
    ret,                \* what that call returned (or that it panicked)
    before,             \* the table, call and ret as they were when the last call was made
    sink,               \* the sink handed to the last call, as that call left it
    panicked,           \* the thread has panicked: no further calls
    inserted,           \* contents of the successful inserts, in order, concatenated
    nops,               \* number of mutating calls made so far
    previous_write,     \* piece_table_rewrite PieceTable.previous_write
    fast_path,          \* the last insert of the rewrite ran its fast-path block
    deleted_hint,       \* previous_write as the last delete of the rewrite found it
    pc,                 \* where the editor process is
    fds,                \* what stdout, stderr and stdin of the process are
    editor,             \* the Editor, once built
    stdin_mode,         \* the terminal mode of stdin
    refreshed,          \* what the last editor_refresh_screen drew and returned
    keypress,           \* what the last editor_process_keypress read and returned
    kill_status,        \* the status kill_editor was called with
    iterations          \* number of iterations of the loop of main so far

\* The variables only the rewrite draft uses.
rewrite_vars == <<previous_write, fast_path, deleted_hint>>

\* The variables only the editor process uses.
editor_vars == <<pc, fds, editor, stdin_mode, refreshed, keypress, kill_status,
                 iterations>>

vars == <<original, addition, pieces, current_piece_id, debug_assertions, text,
          call, ret, before, sink, panicked, inserted, nops, rewrite_vars,
          editor_vars>>

\* Bound on the number of write_to_loc / write_to_current_piece calls of a run.
MaxOps == 3

\* The same bound for the runs in which the table is written to a sink.
MaxStreamOps == 2

\* Bound on the number of calls of a run in which split_piece is called.
MaxSplitOps == 2

\* Bound on the number of insert / delete calls of a run of the rewrite draft.
MaxRewriteOps == 3

\* Bound on the positions delete is called with.
MaxDeletePos == 2

\* Bound on the distance of a Position operand from 0 or from usize::MAX.
MaxPosition == 2

\* Bound on the rows and columns a terminal reports.
MaxWinsize == 2

\* Bound on the number of screen refreshes / iterations of the loop of main.
MaxIterations == 2

----------------------------------------------------------------------------
(* Strings *)

\* UTF-8 continuation bytes (0x80..0xBF): never the first byte of a character.
Continuation == {"A9"}

\* The encodings of the characters used: three ASCII ones and U+00E9.
Ch_h == <<"h">>
Ch_i == <<"i">>
Ch_a == <<"a">>
Ch_e_acute == <<"C3", "A9">>

\* The texts a table is constructed from.
Texts == { <<>>, Ch_h, Ch_e_acute, Ch_h \o Ch_i, Ch_h \o Ch_e_acute }

\* The contents passed to write_to_loc and write_to_current_piece.
Contents == { <<>>, Ch_a, Ch_e_acute }

\* String::len: the length in bytes.
str_len(s) == Len(s)

\* str::chars().count(): the number of characters.
chars_count(s) == Cardinality({ i \in 1..Len(s) : s[i] \notin Continuation })

\* str::is_char_boundary
is_char_boundary(s, index) ==
    \/ index = 0
    \/ index = Len(s)
    \/ index < Len(s) /\ s[index + 1] \notin Continuation

None == [some |-> FALSE]
Some(v) == [some |-> TRUE, val |-> v]

\* str::get(start..stop)
str_get(s, start, stop) ==
    IF /\ start <= stop
       /\ stop <= Len(s)
       /\ is_char_boundary(s, start)
       /\ is_char_boundary(s, stop)
    THEN Some(SubSeq(s, start + 1, stop))
    ELSE None

\* Vec::insert(index, element), for index <= len
vec_insert(v, index, element) ==
    SubSeq(v, 1, index) \o <<element>> \o SubSeq(v, index + 1, Len(v))

----------------------------------------------------------------------------
(* Pieces and results *)

ORIGINAL == "ORIGINAL"
ADDITION == "ADDITION"

Piece(start, stop, content) == [start |-> start, stop |-> stop, content |-> content]

\* Piece::len
Piece_len(piece) == piece.stop - piece.start

Ok(v) == [kind |-> "Ok", val |-> v]
Err(e) == [kind |-> "Err", val |-> e]
\* A panic: the call does not return.
Panic == [kind |-> "Panic", val |-> <<>>]

GotBadPieceID == "GotBadPieceID"
GotBadPieceRange == "GotBadPieceRange"
GotBadLoc == "GotBadLoc"

PieceTable(o, a, p, c) ==
    [original |-> o, addition |-> a, pieces |-> p, current_piece_id |-> c]

\* The table held in the variables.
Self == PieceTable(original, addition, pieces, current_piece_id)

----------------------------------------------------------------------------
(* Construction *)

\* from_string taking the length of s in characters instead of bytes.
from_string_chars(s) ==
    PieceTable(s, <<>>, <<Piece(0, chars_count(s), ORIGINAL)>>, 0)

\* PieceTable::from_string
from_string(s) ==
    PieceTable(s, <<>>, <<Piece(0, str_len(s), ORIGINAL)>>, 0)

\* PieceTable::from_str
from_str(s) == from_string(s)

\* new with an empty piece list.
new_no_pieces == PieceTable(<<>>, <<>>, <<>>, 0)

\* PieceTable::new
new == PieceTable(<<>>, <<>>, <<Piece(0, 0, ORIGINAL)>>, 0)

----------------------------------------------------------------------------
(* Insert *)

\* The result of an operation on a table: the table it leaves and what it returns.
Outcome(t, r) == [table |-> t, ret |-> r]

\* The loop of write_to_loc that resolves loc to a piece: the first piece at
\* whose end the running length reaches loc, with the running length before it.
RECURSIVE scan_pieces(_, _, _, _)
scan_pieces(ps, loc, id, current_loc) ==
    IF id >= Len(ps)
    THEN None
    ELSE LET next_loc == current_loc + Piece_len(ps[id + 1])
         IN  IF next_loc >= loc
             THEN Some([piece_id |-> id, piece_start_loc |-> current_loc])
             ELSE scan_pieces(ps, loc, id + 1, next_loc)

\* find_piece clamping a position past the end to the last piece.
find_piece_clamped(ps, loc) ==
    LET found == scan_pieces(ps, loc, 0, 0)
    IN  IF found.some \/ ps = <<>>
        THEN found
        ELSE Some([piece_id |-> Len(ps) - 1,
                   piece_start_loc |-> loc - Piece_len(ps[Len(ps)])])

\* The position resolution of write_to_loc.
find_piece(ps, loc) == scan_pieces(ps, loc, 0, 0)

\* The range check of split_piece: the condition under which it is rejected.
split_out_of_range(piece, true_loc) ==
    ~(true_loc >= piece.start \/ true_loc <= piece.stop)

\* PieceTable::split_piece
split_piece(t, piece_id, piece_loc) ==
    IF piece_id >= Len(t.pieces)
    THEN Outcome(t, Err(GotBadPieceID))
    ELSE LET piece == t.pieces[piece_id + 1]
             true_loc == piece_loc + piece.start
         IN  IF split_out_of_range(piece, true_loc)
             THEN Outcome(t, Err(GotBadPieceRange))
             ELSE LET first == Piece(piece.start, true_loc, piece.content)
                      new_piece == Piece(true_loc, piece.stop, piece.content)
                      shortened == [t.pieces EXCEPT ![piece_id + 1] = first]
                  IN  Outcome([t EXCEPT !.pieces =
                                   vec_insert(shortened, piece_id + 1, new_piece)],
                              Ok(0))

\* The test of write_to_loc that decides whether the located piece is split.
needs_split(loc, piece_start_loc, piece) ==
    loc # piece_start_loc + Piece_len(piece)

\* push_new_piece replacing the addition buffer by content instead of appending.
push_new_piece_overwrite(t, piece_id, content) ==
    LET start == str_len(t.addition)
        stop == start + str_len(content)
        new_piece == Piece(start, stop, ADDITION)
    IN  Outcome([t EXCEPT !.addition = content,
                          !.pieces = vec_insert(t.pieces, piece_id + 1, new_piece),
                          !.current_piece_id = piece_id + 1],
                Ok(stop - start))

\* push_new_piece setting current_piece_id one past the new piece.
push_new_piece_hint_past(t, piece_id, content) ==
    LET start == str_len(t.addition)
        addition2 == t.addition \o content
        new_piece == Piece(start, str_len(addition2), ADDITION)
        pieces2 == vec_insert(t.pieces, piece_id + 1, new_piece)
    IN  Outcome([t EXCEPT !.addition = addition2,
                          !.pieces = pieces2,
                          !.current_piece_id = Len(pieces2)],
                Ok(str_len(addition2) - start))

\* The tail of write_to_loc: append content to the addition buffer and put a
\* new piece over it right after the piece piece_id.
push_new_piece(t, piece_id, content) ==
    LET start == str_len(t.addition)
        addition2 == t.addition \o content
        stop == str_len(addition2)
        n_chars == stop - start
        new_piece == Piece(start, stop, ADDITION)
        new_piece_id == piece_id + 1
    IN  Outcome([t EXCEPT !.addition = addition2,
                          !.pieces = vec_insert(t.pieces, new_piece_id, new_piece),
                          !.current_piece_id = new_piece_id],
                Ok(n_chars))

\* PieceTable::write_to_loc
write_to_loc(t, loc, content) ==
    LET found == find_piece(t.pieces, loc)
    IN  IF ~found.some
        THEN Outcome(t, Err(GotBadLoc))
        ELSE LET piece_id == found.val.piece_id
                 piece_start_loc == found.val.piece_start_loc
                 piece == t.pieces[piece_id + 1]
             IN  IF needs_split(loc, piece_start_loc, piece)
                 THEN LET sp == split_piece(t, piece_id, loc - piece_start_loc)
                      IN  IF sp.ret.kind = "Err"
                          THEN Outcome(sp.table, Err(GotBadLoc))
                          ELSE push_new_piece(sp.table, piece_id, content)
                 ELSE push_new_piece(t, piece_id, content)

\* The number by which write_to_current_piece advances the stop of the piece.
appended_count(content) == chars_count(content)

\* PieceTable::write_to_current_piece; debug is cfg(debug_assertions).
write_to_current_piece(t, content, debug) ==
    IF t.current_piece_id >= Len(t.pieces)
    THEN Outcome(t, Panic)
    ELSE LET piece == t.pieces[t.current_piece_id + 1]
         IN  IF piece.content # ADDITION
             THEN Outcome(t, Err(GotBadPieceID))
             ELSE IF piece.stop # str_len(t.addition)
             THEN Outcome(t, Err(GotBadPieceRange))
             ELSE LET n_chars == appended_count(content)
                      stop2 == piece.stop + n_chars
                      t2 == [t EXCEPT
                               !.pieces[t.current_piece_id + 1].stop = stop2,
                               !.addition = t.addition \o content]
                  IN  IF debug /\ str_len(t2.addition) # stop2
                      THEN Outcome(t2, Panic)
                      ELSE Outcome(t2, Ok(n_chars))

----------------------------------------------------------------------------
(* Materialize *)

\* String::from_utf8 accepts the bytes: every lead byte is followed by its
\* continuation byte and every continuation byte follows a lead byte.
utf8_valid(buf) ==
    \A i \in 1..Len(buf) :
        /\ buf[i] = "C3" => (i < Len(buf) /\ buf[i + 1] = "A9")
        /\ buf[i] = "A9" => (i > 1 /\ buf[i - 1] = "C3")

\* string_writer::StringWriter::new
StringWriter_new == [kind |-> "StringWriter", contents |-> <<>>]

\* <StringWriter as Write>::write
StringWriter_write(w, buf) ==
    IF utf8_valid(buf)
    THEN [stream |-> [w EXCEPT !.contents = w.contents \o buf], ret |-> Ok(Len(buf))]
    ELSE [stream |-> w, ret |-> Err("InvalidData")]

\* A sink other than StringWriter (the T: Write of write_contents_to_stream):
\* it accepts ok_writes calls of write, each in full, and fails every later one.
\* It keeps the slices it accepted (received) and their concatenation.
Sink_new(ok_writes) ==
    [kind |-> "Sink", contents |-> <<>>, received |-> <<>>,
     ok_writes |-> ok_writes, failed |-> FALSE]

\* The error a failing sink returns from write.
SinkError == "SinkError"

\* Write::write of such a sink
Sink_write(w, buf) ==
    IF w.ok_writes = 0
    THEN [stream |-> [w EXCEPT !.failed = TRUE], ret |-> Err(SinkError)]
    ELSE [stream |-> [w EXCEPT !.contents = w.contents \o buf,
                               !.received = Append(w.received, buf),
                               !.ok_writes = w.ok_writes - 1],
          ret |-> Ok(Len(buf))]

\* stream.write(buf) for the sink at hand
stream_write(stream, buf) ==
    IF stream.kind = "StringWriter"
    THEN StringWriter_write(stream, buf)
    ELSE Sink_write(stream, buf)

\* PieceTableError::IOError(err)
IOError(err) == [error |-> "IOError", inner |-> err]

\* The backing buffer a piece refers to.
piece_buf(t, piece) ==
    IF piece.content = ORIGINAL THEN t.original ELSE t.addition

\* The loop of write_contents_to_stream from piece id on, with n_bytes written.
RECURSIVE stream_pieces(_, _, _, _)
stream_pieces(t, stream, id, n_bytes) ==
    IF id >= Len(t.pieces)
    THEN [stream |-> stream, ret |-> Ok(n_bytes)]
    ELSE LET piece == t.pieces[id + 1]
             contents == str_get(piece_buf(t, piece), piece.start, piece.stop)
         IN  IF ~contents.some
             THEN [stream |-> stream, ret |-> Err(GotBadPieceRange)]
             ELSE LET w == stream_write(stream, contents.val)
                  IN  IF w.ret.kind = "Err"
                      THEN [stream |-> w.stream, ret |-> Err(IOError(w.ret.val))]
                      ELSE stream_pieces(t, w.stream, id + 1, n_bytes + w.ret.val)

\* PieceTable::write_contents_to_stream
write_contents_to_stream(t, stream) == stream_pieces(t, stream, 0, 0)

\* PieceTable::write_contents_to_string: unwraps the result of the stream write.
write_contents_to_string(t) ==
    LET w == write_contents_to_stream(t, StringWriter_new)
    IN  IF w.ret.kind = "Err" THEN Panic ELSE Ok(w.stream.contents)

\* PieceTable::get_pieces
get_pieces(t) == t.pieces

----------------------------------------------------------------------------
(* The state machine *)

Call(op, loc, content) == [op |-> op, loc |-> loc, content |-> content]

\* The sum of the piece lengths: the length the table takes its document to have.
RECURSIVE pieces_len(_)
pieces_len(ps) ==
    IF ps = <<>> THEN 0 ELSE Piece_len(Head(ps)) + pieces_len(Tail(ps))

\* The value of sink after a call that takes no sink.
NoStream == [kind |-> "none"]

\* What `before` records of a state.
Snapshot(t, c, r) == [table |-> t, call |-> c, ret |-> r]

\* No editor process has been started.
EditorNotStarted ==
    /\ pc = "none"
    /\ fds = <<>>
    /\ editor = None
    /\ stdin_mode = "original"
    /\ refreshed = None
    /\ keypress = None
    /\ kill_status = None
    /\ iterations = 0

\* The table t just constructed by call c.
InitTable(t, c) ==
    /\ original = t.original
    /\ addition = t.addition
    /\ pieces = t.pieces
    /\ current_piece_id = t.current_piece_id
    /\ text = c.content
    /\ call = c
    /\ ret = Ok(0)
    /\ before = Snapshot(t, c, Ok(0))
    /\ sink = NoStream
    /\ panicked = FALSE
    /\ inserted = <<>>
    /\ nops = 0
    /\ previous_write = None
    /\ fast_path = FALSE
    /\ deleted_hint = None

InitFrom(t, c) == InitTable(t, c) /\ EditorNotStarted

Init ==
    /\ debug_assertions \in BOOLEAN
    /\ \/ InitFrom(new, Call("new", 0, <<>>))
       \/ \E s \in Texts : InitFrom(from_str(s), Call("from_str", 0, s))

\* The variables after an insert that left table t and returned r.
Inserted(o, c) ==
    /\ original' = o.table.original
    /\ addition' = o.table.addition
    /\ pieces' = o.table.pieces
    /\ current_piece_id' = o.table.current_piece_id
    /\ call' = c
    /\ ret' = o.ret
    /\ before' = Snapshot(Self, call, ret)
    /\ sink' = NoStream
    /\ panicked' = (o.ret.kind = "Panic")
    /\ inserted' = IF o.ret.kind = "Ok" THEN inserted \o c.content ELSE inserted
    /\ nops' = nops + 1
    /\ UNCHANGED <<debug_assertions, text, rewrite_vars, editor_vars>>

WriteToLoc ==
    /\ ~panicked
    /\ nops < MaxOps
    /\ \E loc \in 0..(pieces_len(pieces) + 1), content \in Contents :
          Inserted(write_to_loc(Self, loc, content),
                   Call("write_to_loc", loc, content))

WriteToCurrentPiece ==
    /\ ~panicked
    /\ nops < MaxOps
    /\ \E content \in Contents :
          Inserted(write_to_current_piece(Self, content, debug_assertions),
                   Call("write_to_current_piece", 0, content))

WriteContentsToString ==
    /\ ~panicked
    /\ call' = Call("write_contents_to_string", 0, <<>>)
    /\ ret' = write_contents_to_string(Self)
    /\ before' = Snapshot(Self, call, ret)
    /\ sink' = NoStream
    /\ panicked' = (ret'.kind = "Panic")
    /\ UNCHANGED <<original, addition, pieces, current_piece_id,
                   debug_assertions, text, inserted, nops, rewrite_vars, editor_vars>>

\* write_contents_to_stream on a sink that accepts ok_writes writes: every
\* number of accepted writes up to one per piece (no failure) is tried.
WriteContentsToStream ==
    /\ ~panicked
    /\ \E ok_writes \in 0..Len(pieces) :
          LET w == write_contents_to_stream(Self, Sink_new(ok_writes))
          IN  /\ call' = Call("write_contents_to_stream", 0, <<>>)
              /\ ret' = w.ret
              /\ sink' = w.stream
    /\ before' = Snapshot(Self, call, ret)
    /\ UNCHANGED <<original, addition, pieces, current_piece_id,
                   debug_assertions, text, panicked, inserted, nops, rewrite_vars, editor_vars>>

Next ==
    \/ WriteToLoc
    \/ WriteToCurrentPiece
    \/ WriteContentsToString

Spec == Init /\ [][Next]_vars

\* Tables built by at most MaxStreamOps inserts, written to sinks.
StreamWriteToLoc == nops < MaxStreamOps /\ WriteToLoc
StreamWriteToCurrentPiece == nops < MaxStreamOps /\ WriteToCurrentPiece

NextStream ==
    \/ StreamWriteToLoc
    \/ StreamWriteToCurrentPiece
    \/ WriteContentsToStream

SpecStream == Init /\ [][NextStream]_vars

\* A call of the private split_piece with its two arguments.
SplitCall(piece_id, piece_loc) ==
    [op |-> "split_piece", loc |-> piece_loc, content |-> <<>>, piece_id |-> piece_id]

\* split_piece called on its own, with any piece id up to one past the list
\* and any offset up to one past the bytes the two buffers hold.
SplitPiece ==
    /\ ~panicked
    /\ nops < MaxSplitOps
    /\ \E piece_id \in 0..Len(pieces),
          piece_loc \in 0..(str_len(original) + str_len(addition) + 1) :
          LET o == split_piece(Self, piece_id, piece_loc)
          IN  /\ pieces' = o.table.pieces
              /\ call' = SplitCall(piece_id, piece_loc)
              /\ ret' = o.ret
    /\ before' = Snapshot(Self, call, ret)
    /\ sink' = NoStream
    /\ nops' = nops + 1
    /\ UNCHANGED <<original, addition, current_piece_id, debug_assertions,
                   text, panicked, inserted, rewrite_vars, editor_vars>>

\* The inserts that build the tables split_piece is called on.
SplitWriteToLoc ==
    /\ call.op # "split_piece"
    /\ nops < MaxSplitOps
    /\ WriteToLoc

SplitWriteToCurrentPiece ==
    /\ call.op # "split_piece"
    /\ nops < MaxSplitOps
    /\ WriteToCurrentPiece

NextSplit ==
    \/ SplitWriteToLoc
    \/ SplitWriteToCurrentPiece
    \/ SplitPiece

SpecSplit == Init /\ [][NextSplit]_vars

----------------------------------------------------------------------------
(* The rewrite draft: piece_table_rewrite.rs *)

\* struct WriteLocation
WriteLocation(position, piece_id) == [position |-> position, piece_id |-> piece_id]

\* struct PieceTable of the rewrite
RewriteTable(o, a, p, w) ==
    [original |-> o, addition |-> a, pieces |-> p, previous_write |-> w]

\* The rewrite's table held in the variables.
SelfRewrite == RewriteTable(original, addition, pieces, previous_write)

\* PieceTable::new of the rewrite
rewrite_new(s) == RewriteTable(s, <<>>, <<Piece(0, str_len(s), ORIGINAL)>>, None)

\* Position::change_position
change_position(position, distance) == position + distance

\* delete leaving previous_write as it found it.
delete_keeps_hint(t, start, end) == t

\* PieceTable::delete of the rewrite: its whole body is the one assignment.
delete(t, start, end) == [t EXCEPT !.previous_write = None]

\* The condition of insert's fast-path block.
takes_fast_path(t, position) ==
    /\ t.previous_write.some
    /\ position = t.previous_write.val.position

\* The fast-path block of insert: extend the addition buffer and the piece the
\* hint names. The block does not return.
continue_previous_write(t, content) ==
    LET piece_id == t.previous_write.val.piece_id
        pushed == [t EXCEPT !.addition = t.addition \o content]
    IN  IF piece_id >= Len(t.pieces)
        THEN Outcome(pushed, Panic)
        ELSE Outcome([pushed EXCEPT !.pieces[piece_id + 1].stop =
                          change_position(t.pieces[piece_id + 1].stop, str_len(content))],
                     Ok(0))

\* The hint an insert leaves: the end of the new piece and its index.
record_write(position, content, new_piece_id) ==
    Some(WriteLocation(position + str_len(content), new_piece_id))

\* The general path of insert.
insert_general(t, position, content) ==
    LET found == find_piece(t.pieces, position)
    IN  IF ~found.some
        THEN Outcome(t, Err(GotBadLoc))
        ELSE LET piece_id == found.val.piece_id
                 piece_start_loc == found.val.piece_start_loc
                 piece == t.pieces[piece_id + 1]
                 sp == IF needs_split(position, piece_start_loc, piece)
                       THEN split_piece(t, piece_id, position - piece_start_loc)
                       ELSE Outcome(t, Ok(0))
             IN  IF sp.ret.kind = "Err"
                 THEN Outcome(sp.table, Err(GotBadLoc))
                 ELSE LET start == str_len(sp.table.addition)
                          stop == start + str_len(content)
                          new_piece_id == piece_id + 1
                      IN  Outcome([sp.table EXCEPT
                                      !.addition = sp.table.addition \o content,
                                      !.pieces = vec_insert(sp.table.pieces, new_piece_id,
                                                            Piece(start, stop, ADDITION)),
                                      !.previous_write =
                                          record_write(position, content, new_piece_id)],
                                  Ok(stop - start))

\* PieceTable::insert of the rewrite
insert(t, position, content) ==
    IF takes_fast_path(t, position)
    THEN LET continued == continue_previous_write(t, content)
         IN  IF continued.ret.kind = "Panic"
             THEN continued
             ELSE insert_general(continued.table, position, content)
    ELSE insert_general(t, position, content)

Min(a, b) == IF a <= b THEN a ELSE b

\* The positions delete is called with: up to one past the end of the pieces.
DeletePositions == 0..Min(pieces_len(pieces) + 1, MaxDeletePos)

\* A call of delete with its two arguments.
DeleteCall(start, end) ==
    [op |-> "delete", loc |-> start, content |-> <<>>, end |-> end]

\* The variables of the table after a call of the rewrite that left table t.
RewriteCalled(t) ==
    /\ addition' = t.addition
    /\ pieces' = t.pieces
    /\ previous_write' = t.previous_write
    /\ before' = Snapshot(SelfRewrite, call, ret)
    /\ sink' = NoStream
    /\ nops' = nops + 1
    /\ UNCHANGED <<original, current_piece_id, debug_assertions, text, editor_vars>>

InitRewrite ==
    /\ debug_assertions \in BOOLEAN
    /\ \E s \in Texts :
          /\ InitFrom(from_string(s), Call("new", 0, s))
          /\ SelfRewrite = rewrite_new(s)

Insert ==
    /\ ~panicked
    /\ nops < MaxRewriteOps
    /\ \E position \in 0..(pieces_len(pieces) + 1), content \in Contents :
          LET o == insert(SelfRewrite, position, content)
          IN  /\ RewriteCalled(o.table)
              /\ call' = Call("insert", position, content)
              /\ ret' = o.ret
              /\ panicked' = (o.ret.kind = "Panic")
              /\ inserted' = IF o.ret.kind = "Ok" THEN inserted \o content ELSE inserted
              /\ fast_path' = takes_fast_path(SelfRewrite, position)
    /\ UNCHANGED deleted_hint

Delete ==
    /\ ~panicked
    /\ nops < MaxRewriteOps
    /\ \E start \in DeletePositions, end \in DeletePositions :
          /\ RewriteCalled(delete(SelfRewrite, start, end))
          /\ call' = DeleteCall(start, end)
    /\ ret' = Ok(0)
    /\ fast_path' = FALSE
    /\ deleted_hint' = previous_write
    /\ UNCHANGED <<panicked, inserted>>

NextRewrite ==
    \/ Insert
    \/ Delete

SpecRewrite == InitRewrite /\ [][NextRewrite]_vars

----------------------------------------------------------------------------
(* Position arithmetic of the rewrite draft, on usize *)

\* A usize is written by its distance from 0 or from usize::MAX = 2^64 - 1:
\* usize(n) is n and usize_top(k) is usize::MAX - k, for n and k far below 2^63.
usize(n) == [top |-> FALSE, n |-> n]
usize_top(k) == [top |-> TRUE, n |-> k]

\* The value a usize operator computes modulo 2^64, and whether it overflowed.
Wrapping(overflow, val) == [overflow |-> overflow, val |-> val]

\* usize + usize
overflowing_add(a, b) ==
    CASE ~a.top /\ ~b.top -> Wrapping(FALSE, usize(a.n + b.n))
      [] a.top /\ b.top   -> Wrapping(TRUE, usize_top(a.n + b.n + 1))
      [] OTHER ->
           LET k == IF a.top THEN a.n ELSE b.n
               d == IF a.top THEN b.n ELSE a.n
           IN  IF d <= k
               THEN Wrapping(FALSE, usize_top(k - d))
               ELSE Wrapping(TRUE, usize(d - k - 1))

\* usize - usize
overflowing_sub(a, b) ==
    CASE ~a.top /\ ~b.top ->
           IF a.n >= b.n
           THEN Wrapping(FALSE, usize(a.n - b.n))
           ELSE Wrapping(TRUE, usize_top(b.n - a.n - 1))
      [] a.top /\ ~b.top -> Wrapping(FALSE, usize_top(a.n + b.n))
      [] ~a.top /\ b.top -> Wrapping(TRUE, usize(a.n + b.n + 1))
      [] OTHER ->
           IF b.n >= a.n
           THEN Wrapping(FALSE, usize(b.n - a.n))
           ELSE Wrapping(TRUE, usize_top(a.n - b.n - 1))

\* What an arithmetic operator of the build returns: an overflow panics with
\* debug assertions and wraps without them.
arith(w, debug) == IF w.overflow /\ debug THEN Panic ELSE Ok(w.val)

\* self.0 < 0 on a usize
usize_below_zero(v) == FALSE

\* Position::change_position, with the Position it leaves in self
Position_change_position(self, distance, debug) ==
    LET added == arith(overflowing_add(self, distance), debug)
    IN  IF added.kind = "Panic"
        THEN added
        ELSE IF usize_below_zero(added.val) THEN Ok(usize(0)) ELSE added

\* <Position as Add>::add
Position_add(self, rhs, debug) == arith(overflowing_add(self, rhs), debug)

\* <Position as Sub>::sub
Position_sub(self, rhs, debug) == arith(overflowing_sub(self, rhs), debug)

\* The Positions the operations are called with.
Positions ==
    {usize(n) : n \in 0..MaxPosition} \cup {usize_top(k) : k \in 0..MaxPosition}

\* A call of a Position operation with its two operands.
PositionCall(op, a, b) == [op |-> op, loc |-> 0, content |-> <<>>, a |-> a, b |-> b]

\* The variables after a Position operation that returned r.
PositionCalled(c, r) ==
    /\ ~panicked
    /\ call' = c
    /\ ret' = r
    /\ panicked' = (r.kind = "Panic")
    /\ before' = Snapshot(Self, call, ret)
    /\ UNCHANGED <<original, addition, pieces, current_piece_id, debug_assertions,
                   text, sink, inserted, nops, rewrite_vars, editor_vars>>

PositionAdd ==
    \E a \in Positions, b \in Positions :
        PositionCalled(PositionCall("add", a, b), Position_add(a, b, debug_assertions))

PositionSub ==
    \E a \in Positions, b \in Positions :
        PositionCalled(PositionCall("sub", a, b), Position_sub(a, b, debug_assertions))

PositionChangePosition ==
    \E a \in Positions, b \in Positions :
        PositionCalled(PositionCall("change_position", a, b),
                       Position_change_position(a, b, debug_assertions))

InitPosition ==
    /\ debug_assertions \in BOOLEAN
    /\ InitFrom(new, Call("new", 0, <<>>))

NextPosition ==
    \/ PositionAdd
    \/ PositionSub
    \/ PositionChangePosition

SpecPosition == InitPosition /\ [][NextPosition]_vars

----------------------------------------------------------------------------
(* The terminal and the editor: terminal.rs, editor.rs *)

\* struct winsize as tcgetwinsize fills it
Winsize(ws_row, ws_col) == [ws_row |-> ws_row, ws_col |-> ws_col]

\* What a file descriptor is: a terminal or not, and the window size
\* tcgetwinsize reports for it (none when the call fails).
Fd(tty, winsize) == [tty |-> tty, winsize |-> winsize]

\* The file descriptors a process can be started with.
Fds ==
    {Fd(FALSE, None)}
      \cup {Fd(TRUE, None)}
      \cup {Fd(TRUE, Some(Winsize(r, c))) : r \in 0..MaxWinsize, c \in 0..MaxWinsize}

\* struct WindowSize
WindowSize(cols, rows) == [cols |-> cols, rows |-> rows]

\* terminal_utils::get_terminal_size_from_fd
get_terminal_size_from_fd(fd) ==
    IF ~fd.tty
    THEN None
    ELSE IF ~fd.winsize.some
         THEN None
         ELSE LET rows == fd.winsize.val.ws_row
                  cols == fd.winsize.val.ws_col
              IN  IF rows > 0 /\ cols > 0
                  THEN Some(WindowSize(cols, rows))
                  ELSE None

\* terminal_utils::get_terminal_size: stdout, stderr and stdin, in that order
get_terminal_size(stdout, stderr, stdin) ==
    IF get_terminal_size_from_fd(stdout).some
    THEN get_terminal_size_from_fd(stdout)
    ELSE IF get_terminal_size_from_fd(stderr).some
         THEN get_terminal_size_from_fd(stderr)
         ELSE IF get_terminal_size_from_fd(stdin).some
              THEN get_terminal_size_from_fd(stdin)
              ELSE None

\* enum EditorStatus, enum EditorBuildError, and the error of an io call
EditorStatus(status, error) == [status |-> status, error |-> error]
UnableToGetWindowSize == "UnableToGetWindowSize"
IoError == "io::Error"
RefershScreen == EditorStatus("RefershScreen", "")
TerminalExitSuccess == EditorStatus("TerminalExitSuccess", "")
FailedToBuild(e) == EditorStatus("FailedToBuild", e)
FailedToRefresh(e) == EditorStatus("FailedToRefresh", e)
FailedToProcessKeypress(e) == EditorStatus("FailedToProcessKeypress", e)

\* Cursor::new
Cursor_new == [row |-> 0, column |-> 0]

\* Editor::build of editor.rs
Editor_build(stdout, stderr, stdin) ==
    LET size == get_terminal_size(stdout, stderr, stdin)
    IN  IF size.some
        THEN Ok([status |-> RefershScreen,
                 screen_rows |-> size.val.rows,
                 screen_colums |-> size.val.cols,
                 text_buffer |-> new,
                 cursor |-> Cursor_new])
        ELSE Err(UnableToGetWindowSize)

\* What a call of editor_refresh_screen did: whether " 1  \r\n" was printed,
\* the number of "~\r\n" rows printed, and what it returned.
ScreenRefresh(first_line, empty_rows, r) ==
    [first_line |-> first_line, empty_rows |-> empty_rows, ret |-> r]

\* io::stdout().flush()
flush(flush_ok) == IF flush_ok THEN Ok(0) ELSE Err(IoError)

\* editor_refresh_screen of editor.rs, with editor_draw_empty_rows
editor_refresh_screen(e, flush_ok, debug) ==
    LET n_rows == arith(overflowing_sub(usize(e.screen_rows), usize(2)), debug)
    IN  IF n_rows.kind = "Panic"
        THEN ScreenRefresh(TRUE, None, Panic)
        ELSE ScreenRefresh(TRUE, Some(n_rows.val), flush(flush_ok))

InitProcess ==
    /\ debug_assertions \in BOOLEAN
    /\ InitTable(new, Call("new", 0, <<>>))
    /\ pc = "start"
    /\ fds \in Fds \X Fds \X Fds
    /\ editor = None
    /\ stdin_mode = "original"
    /\ refreshed = None
    /\ keypress = None
    /\ kill_status = None
    /\ iterations = 0

\* The variables of the tables, which the editor process leaves alone.
table_vars == <<original, addition, pieces, current_piece_id, debug_assertions,
                text, call, ret, before, sink, panicked, inserted, nops,
                rewrite_vars>>

\* Editor::build of editor.rs called at start.
Build ==
    /\ pc = "start"
    /\ LET built == Editor_build(fds[1], fds[2], fds[3])
       IN  /\ editor' = IF built.kind = "Ok" THEN Some(built.val) ELSE None
           /\ pc' = IF built.kind = "Ok" THEN "built" ELSE "build_failed"
    /\ UNCHANGED <<fds, stdin_mode, refreshed, keypress, kill_status, iterations,
                   table_vars>>

\* editor_refresh_screen of editor.rs called on the built editor.
RefreshScreen ==
    /\ pc = "built"
    /\ iterations < MaxIterations
    /\ \E flush_ok \in BOOLEAN :
          refreshed' = Some(editor_refresh_screen(editor.val, flush_ok, debug_assertions))
    /\ pc' = IF refreshed'.val.ret.kind = "Panic" THEN "panicked" ELSE "built"
    /\ iterations' = iterations + 1
    /\ UNCHANGED <<fds, editor, stdin_mode, keypress, kill_status, table_vars>>

NextEditor ==
    \/ Build
    \/ RefreshScreen

SpecEditor == InitProcess /\ [][NextEditor]_vars

----------------------------------------------------------------------------
(* The process: main.rs, with the modules it declares inline *)

\* Editor::build of main.rs
main_Editor_build(stdout, stderr, stdin) ==
    LET size == get_terminal_size(stdout, stderr, stdin)
    IN  IF size.some
        THEN Ok([status |-> RefershScreen,
                 screen_rows |-> size.val.rows,
                 screen_colums |-> size.val.cols])
        ELSE Err(UnableToGetWindowSize)

\* What a call of editor_refresh_screen of main.rs did in an iteration: the
\* number of "~\r\n" rows printed and what it returned.
MainScreenRefresh(rows, r, iteration) ==
    [rows |-> rows, ret |-> r, iteration |-> iteration]

\* editor_refresh_screen of main.rs, with editor_draw_rows
main_editor_refresh_screen(e, flush_ok, iteration) ==
    MainScreenRefresh(e.screen_rows, flush(flush_ok), iteration)

\* The bytes stdin delivers, and a read that fails.
Keys == {"q", "Q", "a"}
ReadFailed == "read failed"

\* editor_process_keypress: the editor it leaves and what it returns, for
\* what read_exact delivers.
editor_process_keypress(e, read) ==
    IF read = ReadFailed
    THEN [editor |-> e, ret |-> Err(IoError)]
    ELSE IF read = "q"
         THEN [editor |-> [e EXCEPT !.status = TerminalExitSuccess], ret |-> Ok(0)]
         ELSE [editor |-> e, ret |-> Ok(0)]

\* What a call of editor_process_keypress read and returned in an iteration.
Keypress(read, r, iteration) == [read |-> read, ret |-> r, iteration |-> iteration]

\* One iteration of the loop of main, up to the test of the status: the
\* editor, the refresh and the keypress it leaves.
iterate(e, flush_ok, read, iteration) ==
    LET refresh == main_editor_refresh_screen(e, flush_ok, iteration)
        e1 == IF refresh.ret.kind = "Err"
              THEN [e EXCEPT !.status = FailedToRefresh(refresh.ret.val)]
              ELSE e
        pressed == editor_process_keypress(e1, read)
        e2 == IF pressed.ret.kind = "Err"
              THEN [pressed.editor EXCEPT
                       !.status = FailedToProcessKeypress(pressed.ret.val)]
              ELSE pressed.editor
    IN  [editor |-> e2,
         refreshed |-> refresh,
         keypress |-> Keypress(read, pressed.ret, iteration)]

\* recover_original_stdin_mode leaving stdin in the mode it found.
recover_skipped(mode) == mode

\* input_stream_editor::recover_original_stdin_mode: the mode of stdin after it
recover_original_stdin_mode(mode) == "original"

\* The process is started with each of its three descriptors either on its
\* terminal or redirected.
OneTerminalFds ==
    {f \in Fds \X Fds \X Fds :
        \A i \in 1..3, j \in 1..3 : (f[i].tty /\ f[j].tty) => f[i] = f[j]}

InitMain ==
    /\ debug_assertions \in BOOLEAN
    /\ InitTable(new, Call("new", 0, <<>>))
    /\ pc = "start"
    /\ fds \in OneTerminalFds
    /\ editor = None
    /\ stdin_mode = "original"
    /\ refreshed = None
    /\ keypress = None
    /\ kill_status = None
    /\ iterations = 0

\* input_stream_editor::activate_stdin_raw_mode: Termios::from_fd on a stdin
\* that is not a terminal fails, and the unwrap panics.
ActivateStdinRawMode ==
    /\ pc = "start"
    /\ IF fds[3].tty
       THEN stdin_mode' = "raw" /\ pc' = "build"
       ELSE stdin_mode' = stdin_mode /\ pc' = "panicked"
    /\ UNCHANGED <<fds, editor, refreshed, keypress, kill_status, iterations,
                   table_vars>>

\* let mut editor = match Editor::build() { .. }
MainBuild ==
    /\ pc = "build"
    /\ LET built == main_Editor_build(fds[1], fds[2], fds[3])
       IN  IF built.kind = "Ok"
           THEN /\ editor' = Some(built.val)
                /\ pc' = "loop"
                /\ kill_status' = kill_status
           ELSE /\ editor' = editor
                /\ pc' = "kill_editor"
                /\ kill_status' = Some(FailedToBuild(built.val))
    /\ UNCHANGED <<fds, stdin_mode, refreshed, keypress, iterations, table_vars>>

\* One iteration of the loop of main: refresh, keypress, and either continue
\* or the call of kill_editor.
Iteration ==
    /\ pc = "loop"
    /\ iterations < MaxIterations
    /\ \E flush_ok \in BOOLEAN, read \in Keys \cup {ReadFailed} :
          LET it == iterate(editor.val, flush_ok, read, iterations + 1)
          IN  /\ editor' = Some(it.editor)
              /\ refreshed' = Some(it.refreshed)
              /\ keypress' = Some(it.keypress)
              /\ IF it.editor.status = RefershScreen
                 THEN pc' = "loop" /\ kill_status' = kill_status
                 ELSE pc' = "kill_editor" /\ kill_status' = Some(it.editor.status)
    /\ iterations' = iterations + 1
    /\ UNCHANGED <<fds, stdin_mode, table_vars>>

\* kill_editor, first statement: recover_original_stdin_mode(original_termios)
KillEditorRecover ==
    /\ pc = "kill_editor"
    /\ stdin_mode' = recover_original_stdin_mode(stdin_mode)
    /\ pc' = "kill_editor_flush"
    /\ UNCHANGED <<fds, editor, refreshed, keypress, kill_status, iterations,
                   table_vars>>

\* kill_editor, the rest: clear the screen, flush, and exit or panic
KillEditorExit ==
    /\ pc = "kill_editor_flush"
    /\ \E flush_ok \in BOOLEAN :
          pc' = IF flush(flush_ok).kind = "Ok" THEN "exited" ELSE "kill_editor_panicked"
    /\ UNCHANGED <<fds, editor, stdin_mode, refreshed, keypress, kill_status,
                   iterations, table_vars>>

NextMain ==
    \/ ActivateStdinRawMode
    \/ MainBuild
    \/ Iteration
    \/ KillEditorRecover
    \/ KillEditorExit

SpecMain == InitMain /\ [][NextMain]_vars

----------------------------------------------------------------------------
(* Vocabulary of the properties *)

\* The document of table t: what write_contents_to_string returns on it.
DocOf(t) == write_contents_to_string(t)

\* The document of the current table, and of the table before the last call.
Doc == DocOf(Self)
DocBefore == DocOf(before.table)

\* d with c put in at offset p.
Splice(d, p, c) == SubSeq(d, 1, p) \o c \o SubSeq(d, p + 1, Len(d))

IsPrefix(a, b) == Len(a) <= Len(b) /\ SubSeq(b, 1, Len(a)) = a

\* The table is as it was constructed: no insert has been called on it.
Fresh == nops = 0

\* The last call was write_to_loc / write_to_current_piece.
WasWriteToLoc == call.op = "write_to_loc"
WasWriteToCurrentPiece == call.op = "write_to_current_piece"

\* C1: a successful write_to_loc(p, c) on a table whose document is d, with
\* 0 <= p <= len(d), leaves a table whose document is d[0..p] ++ c ++ d[p..].
C1_PositionalInsert ==
    (/\ WasWriteToLoc
     /\ ret.kind = "Ok"
     /\ DocBefore.kind = "Ok"
     /\ call.loc <= Len(DocBefore.val))
    => (/\ Doc.kind = "Ok"
        /\ Doc.val = Splice(DocBefore.val, call.loc, call.content))

C3_RoundTrip ==
    (Fresh /\ call.op = "write_contents_to_string")
        => (ret.kind = "Ok" /\ ret.val = text)

\* A fresh table constructed from a text with a two-byte character, materialized.
C3_Witness ==
    /\ Fresh
    /\ call.op = "write_contents_to_string"
    /\ text = Ch_h \o Ch_e_acute
    /\ ret.kind = "Ok"
    /\ ret.val = Ch_h \o Ch_e_acute

\* C4: after any successful inserts the piece lengths sum to the length of
\* the original text plus the lengths of the inserted contents, which is also
\* the length of the document the table materializes to.
C4_LengthInvariant ==
    ~panicked =>
        /\ pieces_len(pieces) = Len(text) + Len(inserted)
        /\ Doc.kind = "Ok" => Len(Doc.val) = pieces_len(pieces)

\* C5: a successful write_to_loc at p + len(c1) right after a successful
\* write_to_loc(p, c1) extends the piece the first one created: the piece
\* count stays, that piece's stop grows by the length of the content, and the
\* content is appended to the addition buffer once.
C5_SequentialFastPath ==
    (/\ WasWriteToLoc
     /\ ret.kind = "Ok"
     /\ before.call.op = "write_to_loc"
     /\ before.ret.kind = "Ok"
     /\ call.loc = before.call.loc + Len(before.call.content))
    => LET id == before.table.current_piece_id
       IN  /\ Len(pieces) = Len(before.table.pieces)
           /\ pieces[id + 1].stop
                = before.table.pieces[id + 1].stop + Len(call.content)
           /\ addition = before.table.addition \o call.content

\* The offset in the document of t at which the piece id ends.
piece_end_loc(t, id) == pieces_len(SubSeq(t.pieces, 1, id + 1))

\* Some write_to_loc has succeeded on t: its current piece is an ADDITION piece.
HasWritten(t) ==
    /\ t.current_piece_id < Len(t.pieces)
    /\ t.pieces[t.current_piece_id + 1].content = ADDITION

\* C6: once a write_to_loc has succeeded, write_to_current_piece(x) puts x in
\* the document right after the text of the current piece, keeps the number
\* of pieces and leaves every other piece as it was.
C6_AppendToCurrentPiece ==
    (/\ WasWriteToCurrentPiece
     /\ HasWritten(before.table)
     /\ DocBefore.kind = "Ok")
    => LET id == before.table.current_piece_id
       IN  /\ ret.kind = "Ok"
           /\ Doc.kind = "Ok"
           /\ Doc.val = Splice(DocBefore.val, piece_end_loc(before.table, id),
                               call.content)
           /\ Len(pieces) = Len(before.table.pieces)
           /\ \A i \in 1..Len(pieces) :
                 i # id + 1 => pieces[i] = before.table.pieces[i]

C8_NoZeroLengthPieces ==
    (text # <<>> /\ ~panicked)
        => \A i \in 1..Len(pieces) : pieces[i].stop # pieces[i].start

\* No append is accepted: what the source has in place of a hint set to none.
HintIsNone ==
    \A c \in Contents :
        LET r == write_to_current_piece(Self, c, debug_assertions).ret
        IN  r.kind = "Err" /\ r.val = GotBadPieceID

StrictlyInside(ps, loc) ==
    \E i \in 1..Len(ps) :
        /\ pieces_len(SubSeq(ps, 1, i - 1)) < loc
        /\ loc < pieces_len(SubSeq(ps, 1, i))

\* C10: a successful write_to_loc(p, c) splits a piece exactly when p lies
\* strictly inside one; it adds two pieces then, and one piece otherwise.
C10_SplitOnlyInterior ==
    (WasWriteToLoc /\ ret.kind = "Ok")
    => Len(pieces) = Len(before.table.pieces)
                       + (IF StrictlyInside(before.table.pieces, call.loc)
                          THEN 2 ELSE 1)

\* The length of the backing buffer the piece refers to.
piece_buf_len(t, piece) == str_len(piece_buf(t, piece))

\* C17: every piece has start <= stop <= the length of its backing buffer,
\* write_contents_to_stream does not fail with GotBadPieceRange and
\* write_contents_to_string does not panic.
C17_PieceBounds ==
    /\ \A i \in 1..Len(pieces) :
          /\ pieces[i].start <= pieces[i].stop
          /\ pieces[i].stop <= piece_buf_len(Self, pieces[i])
    /\ write_contents_to_stream(Self, StringWriter_new).ret.kind = "Ok"
    /\ Doc.kind = "Ok"

\* C18: once a write_to_loc has succeeded, current_piece_id names an ADDITION
\* piece whose stop is the length of the addition buffer, also after any
\* appends, and every write_to_current_piece then succeeds.
C18_HintAfterInsert ==
    /\ (~panicked /\ HasWritten(Self))
          => pieces[current_piece_id + 1].stop = str_len(addition)
    /\ (WasWriteToLoc /\ ret.kind = "Ok")
          => /\ HasWritten(Self)
             /\ pieces[current_piece_id + 1].start
                  = str_len(before.table.addition)
    /\ (WasWriteToCurrentPiece /\ HasWritten(before.table))
          => ret.kind = "Ok"

\* C19: after a successful write_to_current_piece(content) the stop of the
\* current piece is the length of the addition buffer, and the count returned
\* is the amount by which the addition buffer grew.
C19_AppendAssertion ==
    (WasWriteToCurrentPiece /\ ret.kind = "Ok")
    => /\ pieces[current_piece_id + 1].stop = str_len(addition)
       /\ ret.val = str_len(addition) - str_len(before.table.addition)

\* No write_to_loc has succeeded on t: its piece list is the one of construction.
NeverWritten(t) == Len(t.pieces) = 1

\* C20: current_piece_id is an index of the piece list; write_to_current_piece
\* on a table on which no write_to_loc has succeeded returns GotBadPieceID;
\* and a write_to_current_piece that returns an error leaves the piece list
\* and the addition buffer as they were.
C20_HintIndexAndRejectedAppend ==
    /\ current_piece_id < Len(pieces)
    /\ (WasWriteToCurrentPiece /\ NeverWritten(before.table))
          => (ret.kind = "Err" /\ ret.val = GotBadPieceID)
    /\ (WasWriteToCurrentPiece /\ ret.kind = "Err")
          => (pieces = before.table.pieces /\ addition = before.table.addition)

\* An append rejected with GotBadPieceID right after a rejected write_to_loc
\* on a table that has taken no insert.
C20_Witness ==
    /\ WasWriteToCurrentPiece
    /\ ret.kind = "Err"
    /\ ret.val = GotBadPieceID
    /\ before.call.op = "write_to_loc"
    /\ before.ret.kind = "Err"
    /\ nops = 2
    /\ text # <<>>

\* The last call was write_contents_to_stream.
WasWriteContentsToStream == call.op = "write_contents_to_stream"

\* The bytes of piece in its own backing buffer over [start, stop).
piece_slice(t, piece) == SubSeq(piece_buf(t, piece), piece.start + 1, piece.stop)

\* The slices of the pieces of t in list order.
piece_slices(t) == [i \in 1..Len(t.pieces) |-> piece_slice(t, t.pieces[i])]

\* C11: write_contents_to_stream to a sink none of whose writes fails hands
\* the sink the slices of the pieces in list order, each from its own backing
\* buffer over [start, stop), returns the sum of the piece lengths and leaves
\* the table as it was.
C11_MaterializeOnSuccess ==
    (WasWriteContentsToStream /\ ~sink.failed)
    => /\ sink.received = piece_slices(Self)
       /\ ret.kind = "Ok"
       /\ ret.val = pieces_len(pieces)
       /\ Self = before.table

\* C12: when a write of the sink fails after k > 0 bytes of earlier pieces
\* were written, write_contents_to_stream returns an I/O error that wraps the
\* error of the sink, and the value returned carries the count k.
C12_MaterializeOnSinkFailure ==
    (WasWriteContentsToStream /\ sink.failed /\ Len(sink.contents) > 0)
    => /\ ret.kind = "Err"
       /\ ret.val = IOError(SinkError)
       /\ "n_bytes" \in DOMAIN ret.val
       /\ ret.val.n_bytes = Len(sink.contents)

\* The last call was split_piece.
WasSplitPiece == call.op = "split_piece"

\* "hello world!", the text of the test piece_table_split_piece.
HelloWorld == <<"h", "e", "l", "l", "o", " ", "w", "o", "r", "l", "d", "!">>

\* The piece list after split_piece(0, 5) and split_piece(1, 2) on HelloWorld.
HelloWorldSplit ==
    LET first == split_piece(from_str(HelloWorld), 0, 5).table
    IN  split_piece(first, 1, 2).table.pieces

\* C15: split_piece(i, k) on a piece [a, b) with 0 < k < b - a puts the pieces
\* [a, a+k) and [a+k, b) of the same source at i and i+1, leaves the other
\* pieces, their order, the two buffers and the document as they were; and
\* "hello world!" split at 5 and then piece 1 at 2 gives [0,5), [5,7), [7,12).
C15_SplitCorrectness ==
    /\ HelloWorldSplit
         = <<Piece(0, 5, ORIGINAL), Piece(5, 7, ORIGINAL), Piece(7, 12, ORIGINAL)>>
    /\ (/\ WasSplitPiece
        /\ call.piece_id < Len(before.table.pieces)
        /\ 0 < call.loc
        /\ call.loc < Piece_len(before.table.pieces[call.piece_id + 1]))
       => LET ps == before.table.pieces
              i == call.piece_id
              piece == ps[i + 1]
              k == call.loc
          IN  /\ ret.kind = "Ok"
              /\ pieces = SubSeq(ps, 1, i)
                            \o <<Piece(piece.start, piece.start + k, piece.content),
                                 Piece(piece.start + k, piece.stop, piece.content)>>
                            \o SubSeq(ps, i + 2, Len(ps))
              /\ original = before.table.original
              /\ addition = before.table.addition
              /\ Doc = DocBefore

\* C16: split_piece(i, k) returns GotBadPieceID when i is not an index of the
\* piece list and GotBadPieceRange when k is greater than the length of
\* piece i, and in both cases leaves the piece list as it was.
C16_SplitErrors ==
    WasSplitPiece
    => LET ps == before.table.pieces
           i == call.piece_id
       IN  /\ i >= Len(ps)
                => (ret.kind = "Err" /\ ret.val = GotBadPieceID /\ pieces = ps)
           /\ (i < Len(ps) /\ call.loc > Piece_len(ps[i + 1]))
                => (ret.kind = "Err" /\ ret.val = GotBadPieceRange /\ pieces = ps)

\* The last call was delete / insert of the rewrite.
WasDelete == call.op = "delete"
WasInsert == call.op = "insert"

\* d without the bytes at offsets [start, min(end, len)).
Cut(d, start, end) ==
    SubSeq(d, 1, Min(start, Len(d))) \o SubSeq(d, Min(end, Len(d)) + 1, Len(d))

\* C13: delete(start, end) with start < end leaves the document
\* d[0..start] ++ d[min(end, len)..], where d is the document before the call;
\* with start >= end it leaves the document as it was.
C13_DeleteRange ==
    (WasDelete /\ DocBefore.kind = "Ok")
    => /\ Doc.kind = "Ok"
       /\ Doc.val = IF call.loc < call.end
                    THEN Cut(DocBefore.val, call.loc, call.end)
                    ELSE DocBefore.val

WasPositionOp == call.op \in {"add", "sub", "change_position"}

\* a < b as numbers.
usize_lt(a, b) ==
    CASE ~a.top /\ ~b.top -> a.n < b.n
      [] a.top /\ b.top   -> a.n > b.n
      [] OTHER            -> b.top

\* C21: a - b is Position(0) when b > a, and no operation on Positions
\* underflows, panics on an underflow or returns a wrapped value.
C21_PositionSaturates ==
    WasPositionOp
    => /\ ret.kind = "Ok"
       /\ (call.op = "sub" /\ usize_lt(call.a, call.b)) => ret.val = usize(0)
       /\ (call.op = "sub" /\ ~usize_lt(call.a, call.b))
             => ret.val = overflowing_sub(call.a, call.b).val
       /\ (call.op # "sub" /\ overflowing_add(call.a, call.b).overflow)
             => ret.val # overflowing_add(call.a, call.b).val

\* C23: on an editor that Editor::build returned (screen_rows >= 1 and
\* screen_colums >= 1), editor_refresh_screen computes screen_rows - 2 without
\* underflow and prints at most screen_rows lines.
C23_RefreshRowCount ==
    /\ editor.some => (editor.val.screen_rows >= 1 /\ editor.val.screen_colums >= 1)
    /\ refreshed.some
         => /\ refreshed.val.ret.kind # "Panic"
            /\ refreshed.val.empty_rows.some
            /\ ~refreshed.val.empty_rows.val.top
            /\ 1 + refreshed.val.empty_rows.val.n <= editor.val.screen_rows

\* The process is in kill_editor or has left through it.
InKillEditor ==
    pc \in {"kill_editor", "kill_editor_flush", "exited", "kill_editor_panicked"}

\* The process has ended in kill_editor: by exit(0) or by the panic on a
\* failed flush.
ExitedThroughKillEditor == pc \in {"exited", "kill_editor_panicked"}

\* The status the iteration just made leaves, from what it read and what the
\* refresh returned, starting from RefershScreen.
StatusAfterIteration ==
    IF keypress.val.ret.kind = "Err"
    THEN FailedToProcessKeypress(IoError)
    ELSE IF keypress.val.read = "q"
         THEN TerminalExitSuccess
         ELSE IF refreshed.val.ret.kind = "Err"
              THEN FailedToRefresh(IoError)
              ELSE RefershScreen

\* C22: the loop starts with status RefershScreen; every iteration refreshes
\* the screen and reads one key; the status after it is TerminalExitSuccess
\* for key 'q', the failure status for a failed read or refresh, and unchanged
\* otherwise; the loop goes on exactly when that status is RefershScreen and
\* kill_editor is called with it in the same iteration otherwise; and the
\* process ends in kill_editor only with stdin back in its original mode.
C22_EditorLoop ==
    /\ (pc = "loop" /\ iterations = 0) => editor.val.status = RefershScreen
    /\ iterations > 0
         => /\ refreshed.some /\ refreshed.val.iteration = iterations
            /\ keypress.some /\ keypress.val.iteration = iterations
            /\ editor.val.status = StatusAfterIteration
            /\ pc = "loop" <=> editor.val.status = RefershScreen
            /\ pc # "loop" => (InKillEditor /\ kill_status = Some(editor.val.status))
    /\ (InKillEditor /\ iterations = 0)
         => kill_status = Some(FailedToBuild(UnableToGetWindowSize))
    /\ ExitedThroughKillEditor => stdin_mode = "original"

\* The process has exited after two iterations, the second of which read 'q'
\* after a refresh that failed.
C22_Witness ==
    /\ pc = "exited"
    /\ iterations = 2
    /\ keypress.val.read = "q"
    /\ refreshed.val.ret.kind = "Err"
    /\ kill_status = Some(TerminalExitSuccess)
    /\ stdin_mode = "original"

====
